---- MODULE Spec2Model ----
(***************************************************************************)
(* Model of the OAuth 2.1 resource-server gate of go-mcp-server-example:   *)
(* OAuthConfig.OAuthMiddleware and its helpers (src/oauth_middleware.go)   *)
(* OAuthConfig.HandleProtectedResourceMetadata, LoggingMiddleware, and the *)
(* startup sequence and routing of main (src/unnamed/part_001, lines       *)
(* 79-142), the redirect of the ServeMux for unclean paths included.       *)
(*                                                                         *)
(* Strings are TLA+ strings.  A JSON claim value is a tagged record:       *)
(*   [kind |-> "string", str |-> s]   a JSON string      (Go string)       *)
(*   [kind |-> "number", num |-> n]   a JSON number      (Go float64)      *)
(*   [kind |-> "array",  arr |-> a]   a JSON array       (Go []interface{})*)
(* and a claim set (jwt.MapClaims) is a function from claim names to such  *)
(* values; an absent claim is a name outside its DOMAIN.                   *)
(***************************************************************************)
EXTENDS Integers, Sequences, FiniteSets, TLC

----------------------------------------------------------------------------
(* Program constants *)

\* src/oauth_middleware.go:156  "Allow 60 seconds of clock skew"
Skew == 60

\* src/oauth_middleware.go:180  http.StatusUnauthorized
StatusUnauthorized == 401

\* src/oauth_middleware.go:191  http.StatusOK
StatusOK == 200

\* variant: the metadata document advertises another scope
ScopesSupported_Other == <<"read">>

\* src/oauth_middleware.go:197  ScopesSupported of the metadata document
ScopesSupported == <<"mcp:tools">>

\* src/oauth_middleware.go:168  the scope literal the gate requires
RequiredScope == "mcp:tools"

\* src/oauth_middleware.go:48  the prefix removed by strings.TrimPrefix
BearerPrefix == "Bearer "

\* src/oauth_middleware.go:177  path appended to ResourceURL
MetadataPath == "/.well-known/oauth-protected-resource"

\* src/oauth_middleware.go:55  jwt.WithValidMethods([]string{"RS256"})
ValidMethods == {"RS256"}

----------------------------------------------------------------------------
(* Bounds of the model *)

\* first instant of the model's clock (seconds since the epoch)
Epoch == 100

\* the clock advances at most this many seconds past Epoch
MaxElapsed == 2

\* requests the server handles at the same time under concurrent load
MaxConcurrent == 2

----------------------------------------------------------------------------
(* JSON values *)

Str(s) == [kind |-> "string", str |-> s]
Num(n) == [kind |-> "number", num |-> n]
Arr(a) == [kind |-> "array", arr |-> a]

NoClaims == [n \in {} |-> Str("")]

----------------------------------------------------------------------------
(* strings.TrimPrefix, strings.Split *)

HasPrefix(s, prefix) ==
    /\ Len(s) >= Len(prefix)
    /\ SubSeq(s, 1, Len(prefix)) = prefix

TrimPrefix(s, prefix) ==
    IF HasPrefix(s, prefix) THEN SubSeq(s, Len(prefix) + 1, Len(s)) ELSE s

\* index of the first sep at or after position i, 0 when there is none
RECURSIVE IndexFrom(_, _, _)
IndexFrom(s, sep, i) ==
    IF i > Len(s) THEN 0
    ELSE IF SubSeq(s, i, i) = sep THEN i
    ELSE IndexFrom(s, sep, i + 1)

\* strings.Split(s, sep) for a one-character sep: the sequence of the
\* substrings between separators (empty substrings included)
RECURSIVE Split(_, _)
Split(s, sep) ==
    LET i == IndexFrom(s, sep, 1)
    IN  IF i = 0 THEN <<s>>
        ELSE <<SubSeq(s, 1, i - 1)>> \o Split(SubSeq(s, i + 1, Len(s)), sep)

----------------------------------------------------------------------------
(* Claim Policy: the four checks of src/oauth_middleware.go:117-173 *)

\* variant: only the first element of a collection is compared
validateAudience_FirstOnly(c, claims) ==
    IF "aud" \notin DOMAIN claims THEN FALSE
    ELSE LET aud == claims["aud"]
         IN  CASE aud.kind = "string" -> aud.str = c.ResourceURL
               [] aud.kind = "array" ->
                    /\ Len(aud.arr) > 0
                    /\ aud.arr[1].kind = "string"
                    /\ aud.arr[1].str = c.ResourceURL
               [] OTHER -> FALSE

validateAudience(c, claims) ==
    IF "aud" \notin DOMAIN claims THEN FALSE
    ELSE LET aud == claims["aud"]
         IN  CASE aud.kind = "string" -> aud.str = c.ResourceURL
               [] aud.kind = "array" ->
                    \E i \in 1..Len(aud.arr) :
                        /\ aud.arr[i].kind = "string"
                        /\ aud.arr[i].str = c.ResourceURL
               [] OTHER -> FALSE

\* variant: a token without iss passes
validateIssuer_MissingOk(c, claims) ==
    IF "iss" \notin DOMAIN claims THEN TRUE
    ELSE IF claims["iss"].kind # "string" THEN FALSE
    ELSE claims["iss"].str = c.AuthzServerURL

validateIssuer(c, claims) ==
    IF "iss" \notin DOMAIN claims THEN FALSE
    ELSE IF claims["iss"].kind # "string" THEN FALSE
    ELSE claims["iss"].str = c.AuthzServerURL

\* variant: any numeric exp passes
validateExpiration_AnyNumber(claims, now) ==
    IF "exp" \notin DOMAIN claims THEN FALSE
    ELSE claims["exp"].kind = "number"

\* now is the value of time.Now().Unix() read by the check
validateExpiration(claims, now) ==
    IF "exp" \notin DOMAIN claims THEN FALSE
    ELSE IF claims["exp"].kind # "number" THEN FALSE
    ELSE now < claims["exp"].num + Skew

\* variant: strings.Contains instead of a comparison of the split tokens
validateScope_Substring(claims) ==
    IF "scope" \notin DOMAIN claims THEN FALSE
    ELSE IF claims["scope"].kind # "string" THEN FALSE
    ELSE LET sc == claims["scope"].str
         IN  \E i \in 1..(Len(sc) - Len(RequiredScope) + 1) :
                SubSeq(sc, i, i + Len(RequiredScope) - 1) = RequiredScope

validateScope(claims) ==
    IF "scope" \notin DOMAIN claims THEN FALSE
    ELSE IF claims["scope"].kind # "string" THEN FALSE
    ELSE LET parts == Split(claims["scope"].str, " ")
         IN  \E i \in 1..Len(parts) : parts[i] = RequiredScope

----------------------------------------------------------------------------
(* Token Validator: jwt.Parse(tokenString, c.jwks.Keyfunc,                 *)
(* jwt.WithValidMethods([]string{"RS256"})), src/oauth_middleware.go:55.   *)
(*                                                                         *)
(* A compact JWT is the record [alg, kid, sig, claims]: the header's alg   *)
(* and kid, the identity of the private key that produced the signature    *)
(* ("" for an unsigned token) and the payload.  A header value is          *)
(* [text, jwt]: the characters of text followed by the compact form of     *)
(* jwt, or text alone when jwt = NoJWT.  The compact form of a JWT has no  *)
(* space in it, so a match of "Bearer " lies within text.                  *)

NoJWT == [alg |-> "", kid |-> "", sig |-> "", claims |-> NoClaims]

\* variant: every signature verifies
VerifyRS256_Always(sig, k) == TRUE

\* RS256 verification of a signature under the public key named k
VerifyRS256(sig, k) == sig = k

\* the registered-claim validation jwt.Parse runs by default (no leeway):
\* exp and nbf are optional, a numeric 0 counts as absent, a non-numeric
\* value is an error, and the token must satisfy nbf <= now < exp
NumericDateError(claims, name) ==
    name \in DOMAIN claims /\ claims[name].kind # "number"

NumericDatePresent(claims, name) ==
    name \in DOMAIN claims /\ claims[name].kind = "number" /\ claims[name].num # 0

ValidatorError(claims, now) ==
    IF NumericDateError(claims, "exp") THEN "exp is invalid"
    ELSE IF NumericDatePresent(claims, "exp") /\ ~(now < claims["exp"].num)
         THEN "token is expired"
    ELSE IF NumericDateError(claims, "nbf") THEN "nbf is invalid"
    ELSE IF NumericDatePresent(claims, "nbf") /\ now < claims["nbf"].num
         THEN "token is not valid yet"
    ELSE ""

\* variant: jwt.Parse without jwt.WithValidMethods
jwtParse_AnyMethod(tokenString, keys, now) ==
    LET t == tokenString.jwt
        err == IF tokenString.text # "" \/ t = NoJWT THEN "token is malformed"
               ELSE IF t.kid \notin keys THEN "key not found"
               ELSE IF ~VerifyRS256(t.sig, t.kid) THEN "signature is invalid"
               ELSE ValidatorError(t.claims, now)
    IN  [err |-> err, Valid |-> (err = ""), Claims |-> t.claims]

\* err = "" is a nil error; token.Valid is set exactly when err is nil
jwtParse(tokenString, keys, now) ==
    LET t == tokenString.jwt
        err == IF tokenString.text # "" \/ t = NoJWT THEN "token is malformed"
               ELSE IF t.alg \notin ValidMethods THEN "signing method is invalid"
               ELSE IF t.kid \notin keys THEN "key not found"
               ELSE IF ~VerifyRS256(t.sig, t.kid) THEN "signature is invalid"
               ELSE ValidatorError(t.claims, now)
    IN  [err |-> err, Valid |-> (err = ""), Claims |-> t.claims]

----------------------------------------------------------------------------
(* http.ResponseWriter: headers is the header map, status the status code  *)
(* written (0 while none is), sent the headers as they were when the       *)
(* status was written (later changes to the map are not transmitted), body *)
(* the text written and json the value a json.Encoder wrote (NoJSON when   *)
(* none did)                                                               *)

NoHeaders == [n \in {} |-> ""]

NoJSON == [resource |-> "", authorization_servers |-> <<>>, scopes_supported |-> <<>>]

NewResponse ==
    [headers |-> NoHeaders, status |-> 0, sent |-> NoHeaders, body |-> "",
     json |-> NoJSON]

HeaderSet(w, name, value) == [w EXCEPT !.headers = (name :> value) @@ w.headers]

WriteHeader(w, code) ==
    IF w.status # 0 THEN w ELSE [w EXCEPT !.status = code, !.sent = w.headers]

Write(w, data) ==
    LET w1 == WriteHeader(w, 200) IN [w1 EXCEPT !.body = w1.body \o data]

\* http.Error(w, msg, code)
httpError(w, msg, code) ==
    LET w1 == HeaderSet(w, "Content-Type", "text/plain; charset=utf-8")
        w2 == HeaderSet(w1, "X-Content-Type-Options", "nosniff")
    IN  Write(WriteHeader(w2, code), msg \o "\n")

\* variant: the header is set after http.Error has written the status
sendUnauthorized_HeaderAfterStatus(c, w) ==
    LET metadataURL == c.ResourceURL \o MetadataPath
    IN  HeaderSet(httpError(w, "Unauthorized", StatusUnauthorized),
                  "WWW-Authenticate",
                  "Bearer resource_metadata=\"" \o metadataURL \o "\"")

\* src/oauth_middleware.go:175-181
sendUnauthorized(c, w) ==
    LET metadataURL == c.ResourceURL \o MetadataPath
    IN  httpError(HeaderSet(w, "WWW-Authenticate",
                            "Bearer resource_metadata=\"" \o metadataURL \o "\""),
                  "Unauthorized", StatusUnauthorized)

\* json.NewEncoder(w).Encode(v): the encoded value and a newline
Encode(w, v) ==
    LET w1 == WriteHeader(w, 200) IN [w1 EXCEPT !.json = v, !.body = w1.body \o "\n"]

\* oauthex.ProtectedResourceMetadata built at src/oauth_middleware.go:195-199
\* variant: the two URLs of the configuration change places
ProtectedResourceMetadata_Swapped(c) ==
    [resource |-> c.AuthzServerURL,
     scopes_supported |-> ScopesSupported,
     authorization_servers |-> <<c.ResourceURL>>]

ProtectedResourceMetadata(c) ==
    [resource |-> c.ResourceURL,
     scopes_supported |-> ScopesSupported,
     authorization_servers |-> <<c.AuthzServerURL>>]

\* src/oauth_middleware.go:183-203
HandleProtectedResourceMetadata(c, w, method) ==
    LET w1 == HeaderSet(w, "Access-Control-Allow-Origin", "*")
        w2 == HeaderSet(w1, "Access-Control-Allow-Methods", "GET, OPTIONS")
        w3 == HeaderSet(w2, "Access-Control-Allow-Headers", "Content-Type")
    IN  IF method = "OPTIONS"
        THEN WriteHeader(w3, StatusOK)
        ELSE Encode(HeaderSet(w3, "Content-Type", "application/json"),
                    ProtectedResourceMetadata(c))

\* path.Clean on the elements of a rooted path: empty elements and "." are
\* dropped, ".." drops the element before it (none at the root)
RECURSIVE CleanElements(_, _)
CleanElements(elems, kept) ==
    IF elems = <<>> THEN kept
    ELSE LET e == Head(elems)
             k == IF e = "" \/ e = "." THEN kept
                  ELSE IF e = ".." THEN (IF kept = <<>> THEN kept
                                         ELSE SubSeq(kept, 1, Len(kept) - 1))
                  ELSE Append(kept, e)
         IN  CleanElements(Tail(elems), k)

RECURSIVE JoinPath(_)
JoinPath(elems) ==
    IF elems = <<>> THEN "" ELSE "/" \o Head(elems) \o JoinPath(Tail(elems))

\* cleanPath of net/http, which the ServeMux of main applies to the path of
\* a request: path.Clean, the trailing slash put back
cleanPath(p) ==
    IF p = "" THEN "/"
    ELSE LET q == IF SubSeq(p, 1, 1) # "/" THEN "/" \o p ELSE p
             joined == JoinPath(CleanElements(Split(q, "/"), <<>>))
             np == IF joined = "" THEN "/" ELSE joined
         IN  IF SubSeq(q, Len(q), Len(q)) = "/" /\ np # "/" THEN np \o "/" ELSE np

\* http.Redirect, by which the ServeMux answers a path that is not clean
Redirect(w, method, url, code) ==
    LET w1 == HeaderSet(w, "Location", url)
        w2 == IF method \in {"GET", "HEAD"}
              THEN HeaderSet(w1, "Content-Type", "text/html; charset=utf-8")
              ELSE w1
        w3 == WriteHeader(w2, code)
    IN  IF method = "GET"
        THEN Write(w3, "<a href=\"" \o url \o "\">Moved Permanently</a>.\n\n")
        ELSE w3

\* the answers net/http gives to the request target "*" before any pattern
\* is matched: the server's own handler answers OPTIONS with 200 and no
\* body, ServeMux.ServeHTTP answers every other method with 400
GlobalOptions(w) == WriteHeader(HeaderSet(w, "Content-Length", "0"), 200)
BadRequest(w) == WriteHeader(HeaderSet(w, "Connection", "close"), 400)

\* an entry of the server log: the format of log.Printf and its argument
NoArg == [none |-> TRUE]
Printf(format, arg) == [format |-> format, arg |-> arg]

----------------------------------------------------------------------------
(* Inputs: configurations, signing keys, claim values, tokens, headers *)

ResA == "http://res.example"
ResB == "http://res.example/"
ResOther == "http://other.example"
AuthA == "http://auth.example"
AuthB == "http://AUTH.example"

\* the flags of main (src/unnamed/part_001:81-91)
Configs ==
    {[AuthzServerURL |-> AuthA, JwksURL |-> AuthA \o "/certs", ResourceURL |-> ResA],
     [AuthzServerURL |-> AuthB, JwksURL |-> AuthB \o "/certs", ResourceURL |-> ResB]}

\* key identifiers the authorization server may publish
Keys == {"k1", "k2"}
KeySets == {{"k1"}, {"k1", "k2"}}

Absent == {NoClaims}
Claim(name, values) == {name :> v : v \in values}

AudClaims == Absent \cup Claim("aud",
    {Str(ResA), Str(ResB), Arr(<<Str(ResOther), Str(ResA)>>),
     Arr(<<Num(1), Str(ResB)>>), Arr(<<>>), Num(1)})

IssClaims == Absent \cup Claim("iss", {Str(AuthA), Str(AuthB), Num(1)})

ExpClaims == Absent \cup Claim("exp",
    {Num(0), Num(Epoch - Skew - 1), Num(Epoch - Skew), Num(Epoch + 1),
     Num(Epoch + MaxElapsed + 1), Str("never")})

ScopeClaims == Absent \cup Claim("scope",
    {Str("mcp:tools"), Str("read mcp:tools write"), Str("read  write"),
     Str("mcp:tools:admin xmcp:tools"), Str("MCP:Tools"), Str(""), Num(1)})

NbfClaims == Absent \cup Claim("nbf", {Num(Epoch + 1)})

\* claim sets in which every check of the gate can pass
CoreClaimSets ==
    {a @@ i @@ e @@ s @@ n :
        a \in Claim("aud", {Str(ResA), Arr(<<Str(ResOther), Str(ResA)>>)}),
        i \in Claim("iss", {Str(AuthA)}),
        e \in Claim("exp", {Num(Epoch + 1), Num(Epoch + MaxElapsed + 1)}),
        s \in Claim("scope", {Str("mcp:tools"), Str("read mcp:tools write")}),
        n \in NbfClaims}

ClaimSets ==
    {a @@ i @@ e @@ s : a \in AudClaims, i \in IssClaims, e \in ExpClaims,
                        s \in ScopeClaims}
    \cup CoreClaimSets

\* [alg, kid, sig]: RS256 tokens signed by the key they name or by a key of
\* the sender's own, an unsigned token, and an HMAC token keyed with the
\* public key
SigningProfiles ==
    {[alg |-> "RS256", kid |-> k, sig |-> k] : k \in Keys}
    \cup {[alg |-> "RS256", kid |-> k, sig |-> "evil"] : k \in Keys}
    \cup {[alg |-> "none", kid |-> "k1", sig |-> ""],
          [alg |-> "HS256", kid |-> "k1", sig |-> "k1"]}

GoodProfiles == {p \in SigningProfiles : p.alg = "RS256" /\ p.sig = p.kid}

MkJWT(p, cl) == [alg |-> p.alg, kid |-> p.kid, sig |-> p.sig, claims |-> cl]

JWTs ==
    {MkJWT(p, cl) : p \in GoodProfiles, cl \in ClaimSets}
    \cup {MkJWT(p, cl) : p \in SigningProfiles, cl \in CoreClaimSets}

SomeJWT ==
    MkJWT([alg |-> "RS256", kid |-> "k1", sig |-> "k1"],
          ("aud" :> Str(ResA)) @@ ("iss" :> Str(AuthA))
              @@ ("exp" :> Num(Epoch + MaxElapsed + 1)) @@ ("scope" :> Str("mcp:tools")))

\* values of the Authorization header ("" is an absent header)
AuthHeaders ==
    {[text |-> BearerPrefix, jwt |-> t] : t \in JWTs}
    \cup {[text |-> x, jwt |-> SomeJWT] :
            x \in {"", "bearer ", "Bearer", "Basic ", " Bearer ", "Bearer  "}}
    \cup {[text |-> x, jwt |-> NoJWT] :
            x \in {"", "Bearer ", "Bearer abc", "Basic dXNlcjpwYXNz", "Bearer a.b.c"}}

\* a request: method, request target (a path, or "*"), Authorization
\* header, body, and whether reading the body fails (the client goes away
\* while sending it)
MkRequest(m, p, h, b, e) ==
    [method |-> m, path |-> p, auth |-> h, body |-> b, readError |-> e]

Methods == {"GET", "OPTIONS", "POST", "DELETE", "CONNECT"}

\* clean paths other than the metadata path, all routed by the pattern "/"
GatePaths == {"/", "/mcp", MetadataPath \o "/"}

\* paths that are not clean: the ServeMux redirects them to their clean
\* form, except in a CONNECT request, whose path it matches as sent
UncleanPaths == {"//mcp", "/./mcp", "/mcp/../.well-known/oauth-protected-resource"}

RemoteAddr == "192.0.2.1:40000"
SomeBody == "{\"jsonrpc\":\"2.0\"}"
AbsentHeader == [text |-> "", jwt |-> NoJWT]
SomeBearer == [text |-> BearerPrefix, jwt |-> SomeJWT]

\* requests sent when the server handles one request at a time
Requests ==
    {MkRequest("POST", "/mcp", h, SomeBody, FALSE) : h \in AuthHeaders}
    \cup {MkRequest("POST", "/mcp", h, SomeBody, TRUE) : h \in {AbsentHeader, SomeBearer}}
    \cup {MkRequest("GET", p, h, "", FALSE) :
            p \in GatePaths \cup UncleanPaths, h \in {AbsentHeader, SomeBearer}}
    \cup {MkRequest("POST", "//mcp", SomeBearer, SomeBody, FALSE)}
    \cup {MkRequest("CONNECT", p, h, "", FALSE) :
            p \in UncleanPaths, h \in {AbsentHeader, SomeBearer}}
    \cup {MkRequest(m, "*", AbsentHeader, "", FALSE) : m \in {"GET", "OPTIONS", "CONNECT"}}
    \cup {MkRequest(m, MetadataPath, h, "", FALSE) :
            m \in Methods,
            h \in {AbsentHeader, SomeBearer, [text |-> "Basic ", jwt |-> NoJWT]}}

MkClaims(aud, iss, exp, scope) ==
    ("aud" :> aud) @@ ("iss" :> iss) @@ ("exp" :> exp) @@ ("scope" :> scope)

\* requests sent when the server handles MaxConcurrent requests at a time:
\* a token the gate forwards when the resolver holds its key and the parse
\* is done before the last second, at which the token expires; a token
\* that fails the scope check; a request without a header, one to the
\* metadata path, one to a path that is not clean
ConcurrentJWTs ==
    LET last == Num(Epoch + MaxElapsed)
        far == Num(Epoch + MaxElapsed + 1)
        good(k) == [alg |-> "RS256", kid |-> k, sig |-> k]
    IN  {MkJWT(good("k2"), MkClaims(Str(ResA), Str(AuthA), last, Str("read mcp:tools write"))),
         MkJWT(good("k1"), MkClaims(Str(ResA), Str(AuthA), far, Str("read  write")))}

ConcurrentRequests ==
    {MkRequest("POST", "/mcp", [text |-> BearerPrefix, jwt |-> t], SomeBody, FALSE) :
        t \in ConcurrentJWTs}
    \cup {MkRequest("POST", "/mcp", AbsentHeader, SomeBody, FALSE),
          MkRequest("GET", MetadataPath, AbsentHeader, "", FALSE),
          MkRequest("GET", "//mcp", AbsentHeader, "", FALSE)}

----------------------------------------------------------------------------
(* State.  The server handles each request in a goroutine of its own; the *)
(* variables from pc on hold, for each slot of Slots, the request handled  *)
(* in that slot and the locals of its handler.                             *)

VARIABLES
    config,      \* the OAuthConfig fields AuthzServerURL, JwksURL, ResourceURL
    jwks,        \* the key set held by c.jwks
    published,   \* the key set the authorization server publishes now
    clock,       \* time.Now().Unix()
    phase,       \* main: "init", "configured", "serving", "fatal"
    load,        \* "single": one request at a time; "concurrent": MaxConcurrent
    pc,          \* position of the request in its handler
    req,         \* method, path and body of the request
    authHeader,  \* r.Header.Get("Authorization") of the request
    tokenString, \* local of the handler
    token,       \* result of jwt.Parse
    resp,        \* the http.ResponseWriter of the request
    nextCalls,   \* calls of next.ServeHTTP for the request
    evaluated,   \* claim checks evaluated for the request, in order
    logged,      \* entries log.Printf wrote for the request, in order
    nowParse,    \* the time jwt.Parse read (0 before)
    keysParse,   \* the key set the Keyfunc answered from ({} before)
    nowExp,      \* the time validateExpiration read (0 before)
    start        \* the time LoggingMiddleware read (0 before)

env == <<config, jwks, published, clock, phase, load>>
locals == <<req, authHeader, tokenString, token, resp, nextCalls, evaluated, logged,
            nowParse, keysParse, nowExp, start>>
vars == <<config, jwks, published, clock, phase, load, pc, req, authHeader,
          tokenString, token, resp, nextCalls, evaluated, logged, nowParse,
          keysParse, nowExp, start>>

Slots == 1..MaxConcurrent
SlotsInUse == IF load = "single" THEN {1} ELSE Slots
Inputs == IF load = "single" THEN Requests ELSE ConcurrentRequests

NoHeader == [text |-> "", jwt |-> NoJWT]
NoToken == [err |-> "", Valid |-> FALSE, Claims |-> NoClaims]
NoRequest == [method |-> "", path |-> "", body |-> "", readError |-> FALSE]

InitWith(l, configs, t0) ==
    /\ config \in configs
    /\ jwks = {}
    /\ published \in KeySets
    /\ clock = t0
    /\ phase = "init"
    /\ load = l
    /\ pc = [r \in Slots |-> "idle"]
    /\ req = [r \in Slots |-> NoRequest]
    /\ authHeader = [r \in Slots |-> NoHeader]
    /\ tokenString = [r \in Slots |-> NoHeader]
    /\ token = [r \in Slots |-> NoToken]
    /\ resp = [r \in Slots |-> NewResponse]
    /\ nextCalls = [r \in Slots |-> 0]
    /\ evaluated = [r \in Slots |-> <<>>]
    /\ logged = [r \in Slots |-> <<>>]
    /\ nowParse = [r \in Slots |-> 0]
    /\ keysParse = [r \in Slots |-> {}]
    /\ nowExp = [r \in Slots |-> 0]
    /\ start = [r \in Slots |-> 0]

Init == InitWith("single", Configs, Epoch)

\* a server of one configuration under concurrent load, started one second
\* before the last instant of the clock
InitConcurrent ==
    InitWith("concurrent", {c \in Configs : c.ResourceURL = ResA}, Epoch + MaxElapsed - 1)

----------------------------------------------------------------------------
(* Startup: main, src/unnamed/part_001:79-142 *)

\* InitJWKS returns nil: keyfunc.NewDefault built the resolver, which holds
\* the published key set, or no key yet when its first fetch did not succeed
InitJWKS ==
    /\ phase = "init"
    /\ \E keys \in {published, {}} : jwks' = keys
    /\ phase' = "configured"
    /\ UNCHANGED <<config, published, clock, load, pc>>
    /\ UNCHANGED locals

\* InitJWKS returns an error and main calls log.Fatalf
InitJWKSFails ==
    /\ phase = "init"
    /\ phase' = "fatal"
    /\ UNCHANGED <<config, jwks, published, clock, load, pc>>
    /\ UNCHANGED locals

\* http.ListenAndServe
ListenAndServe ==
    /\ phase = "configured"
    /\ phase' = "serving"
    /\ UNCHANGED <<config, jwks, published, clock, load, pc>>
    /\ UNCHANGED locals

----------------------------------------------------------------------------
(* Environment: time, the authorization server, the resolver's refresh *)

\* a second passes, at any moment of the handling of any request
Tick ==
    /\ clock < Epoch + MaxElapsed
    /\ clock' = clock + 1
    /\ UNCHANGED <<config, jwks, published, phase, load, pc>>
    /\ UNCHANGED locals

\* the authorization server changes the key set it publishes
RotateKeys ==
    /\ \E keys \in KeySets \ {published} : published' = keys
    /\ UNCHANGED <<config, jwks, clock, phase, load, pc>>
    /\ UNCHANGED locals

\* the refresh goroutine started by keyfunc.NewDefault replaces the key set
RefreshJWKS ==
    /\ phase \in {"configured", "serving"}
    /\ jwks # published
    /\ jwks' = published
    /\ UNCHANGED <<config, published, clock, phase, load, pc>>
    /\ UNCHANGED locals

----------------------------------------------------------------------------
(* Routing, src/unnamed/part_001:122-129 and 139.  A request target is a   *)
(* path that begins with "/", or "*".                                      *)

Set(f, r, v) == [f EXCEPT ![r] = v]

\* variant of Route: the metadata endpoint is registered behind the gate
Route_AllGated(method, path) ==
    IF path = "*" THEN (IF method = "OPTIONS" THEN "options" ELSE "badrequest")
    ELSE IF method # "CONNECT" /\ cleanPath(path) # path THEN "redirect"
    ELSE "logging"

\* the handler the server selects for a request.  The target "*" is
\* answered by net/http itself.  The path of a CONNECT request is matched
\* as sent; the path of any other request is cleaned first, and one that
\* is not clean gets the redirect of the ServeMux.  The pattern of the
\* metadata handler matches the metadata path alone; every other path is
\* matched by the pattern "/", LoggingMiddleware around OAuthMiddleware
Route(method, path) ==
    IF path = "*" THEN (IF method = "OPTIONS" THEN "options" ELSE "badrequest")
    ELSE IF method # "CONNECT" /\ cleanPath(path) # path THEN "redirect"
    ELSE IF path = MetadataPath THEN "metadata"
    ELSE "logging"

\* the server hands a request to the handler of its path
ReceiveRequest(r) ==
    /\ phase = "serving"
    /\ r \in SlotsInUse
    /\ pc[r] = "idle"
    /\ \E q \in Inputs :
          /\ req' = Set(req, r, [method |-> q.method, path |-> q.path,
                                 body |-> q.body, readError |-> q.readError])
          /\ authHeader' = Set(authHeader, r, q.auth)
          /\ pc' = Set(pc, r, Route(q.method, q.path))
    /\ UNCHANGED env
    /\ UNCHANGED <<tokenString, token, resp, nextCalls, evaluated, logged,
                   nowParse, keysParse, nowExp, start>>

\* net/http answers by itself and no handler of main runs: the ServeMux
\* redirects to the clean path, or the target is "*"
ServeRedirect(r) ==
    /\ pc[r] \in {"redirect", "badrequest", "options"}
    /\ resp' = Set(resp, r,
          CASE pc[r] = "redirect" ->
                   Redirect(resp[r], req[r].method, cleanPath(req[r].path), 301)
            [] pc[r] = "badrequest" -> BadRequest(resp[r])
            [] pc[r] = "options" -> GlobalOptions(resp[r]))
    /\ pc' = Set(pc, r, "done")
    /\ UNCHANGED env
    /\ UNCHANGED <<start, req, authHeader, tokenString, token, nextCalls, evaluated, logged,
                   nowParse, keysParse, nowExp>>

\* HandleProtectedResourceMetadata, src/oauth_middleware.go:183-203
ServeMetadata(r) ==
    /\ pc[r] = "metadata"
    /\ resp' = Set(resp, r, HandleProtectedResourceMetadata(config, resp[r], req[r].method))
    /\ pc' = Set(pc, r, "done")
    /\ UNCHANGED env
    /\ UNCHANGED <<start, req, authHeader, tokenString, token, nextCalls, evaluated, logged,
                   nowParse, keysParse, nowExp>>

----------------------------------------------------------------------------
(* OAuthMiddleware, src/oauth_middleware.go:38-115 *)

LogAll(r, msgs) == logged' = Set(logged, r, logged[r] \o msgs)
Log(r, msg) == LogAll(r, <<msg>>)

\* LoggingMiddleware, src/oauth_middleware.go:208-214: the time is read
\* and the request line logged; the handler of a POST then waits for the
\* body, that of another method calls the gate
LoggingMiddleware(r) ==
    /\ pc[r] = "logging"
    /\ start' = Set(start, r, clock)
    /\ Log(r, Printf("[%s] %s %s", [method |-> req[r].method, path |-> req[r].path,
                                     addr |-> RemoteAddr]))
    /\ pc' = Set(pc, r, IF req[r].method = "POST" THEN "body" ELSE "header")
    /\ UNCHANGED env
    /\ UNCHANGED <<req, authHeader, tokenString, token, resp, nextCalls, evaluated,
                   nowParse, keysParse, nowExp>>

\* lines 215-224: io.ReadAll has returned, as late as the client chose; the
\* body is logged and put back, or the error is logged and the body stays
\* consumed
ReadBody(r) ==
    /\ pc[r] = "body"
    /\ IF req[r].readError
       THEN /\ Log(r, Printf("Error reading body: %v", [err |-> "unexpected EOF"]))
            /\ req' = Set(req, r, [req[r] EXCEPT !.body = ""])
       ELSE /\ Log(r, Printf("Body: %s", [str |-> req[r].body]))
            /\ UNCHANGED req
    /\ pc' = Set(pc, r, "header")
    /\ UNCHANGED env
    /\ UNCHANGED <<start, authHeader, tokenString, token, resp, nextCalls, evaluated,
                   nowParse, keysParse, nowExp>>

\* LoggingMiddleware, src/oauth_middleware.go:227-229: the gate has returned
LoggingCompleted(r) ==
    /\ pc[r] = "returned"
    /\ Log(r, Printf("Request completed in %v", [seconds |-> clock - start[r]]))
    /\ pc' = Set(pc, r, "done")
    /\ UNCHANGED env
    /\ UNCHANGED <<start, req, authHeader, tokenString, token, resp, nextCalls, evaluated,
                   nowParse, keysParse, nowExp>>

\* c.sendUnauthorized(w, r); return
Reject(r) ==
    /\ resp' = Set(resp, r, sendUnauthorized(config, resp[r]))
    /\ pc' = Set(pc, r, "returned")

\* variant: the scheme is matched without regard to letter case
TrimPrefixHeader_AnyCase(h) ==
    IF HasPrefix(h.text, BearerPrefix) \/ HasPrefix(h.text, "bearer ")
    THEN [text |-> SubSeq(h.text, Len(BearerPrefix) + 1, Len(h.text)), jwt |-> h.jwt]
    ELSE h

\* lines 41-52: strings.TrimPrefix on the header value
TrimPrefixHeader(h) ==
    IF HasPrefix(h.text, BearerPrefix)
    THEN [text |-> TrimPrefix(h.text, BearerPrefix), jwt |-> h.jwt]
    ELSE h

HeaderIsEmpty(h) == h.text = "" /\ h.jwt = NoJWT

\* variant of CheckAuthorizationHeader: the token string is kept in a field
\* of the shared OAuthConfig, which every handler then reads
CheckAuthorizationHeader_SharedTokenString(r) ==
    /\ pc[r] = "header"
    /\ IF HeaderIsEmpty(authHeader[r])
       THEN Reject(r) /\ UNCHANGED tokenString
       ELSE /\ tokenString' = [o \in Slots |-> IF o \in SlotsInUse
                                              THEN TrimPrefixHeader(authHeader[r])
                                              ELSE tokenString[o]]
            /\ IF tokenString'[r] = authHeader[r]
               THEN Reject(r)
               ELSE pc' = Set(pc, r, "parse") /\ UNCHANGED resp
    /\ UNCHANGED env
    /\ UNCHANGED <<start, req, authHeader, token, nextCalls, evaluated, logged, nowParse,
                   keysParse, nowExp>>

CheckAuthorizationHeader(r) ==
    /\ pc[r] = "header"
    /\ IF HeaderIsEmpty(authHeader[r])
       THEN Reject(r) /\ UNCHANGED tokenString
       ELSE /\ tokenString' = Set(tokenString, r, TrimPrefixHeader(authHeader[r]))
            /\ IF tokenString'[r] = authHeader[r]
               THEN Reject(r)
               ELSE pc' = Set(pc, r, "parse") /\ UNCHANGED resp
    /\ UNCHANGED env
    /\ UNCHANGED <<start, req, authHeader, token, nextCalls, evaluated, logged, nowParse,
                   keysParse, nowExp>>

\* line 55, first part of jwt.Parse: for a token of a valid method it calls
\* c.jwks.Keyfunc, which on a key identifier the resolver does not hold may
\* first fetch the key set again
KeyMiss(ts) ==
    /\ ts.text = ""
    /\ ts.jwt # NoJWT
    /\ ts.jwt.alg \in ValidMethods
    /\ ts.jwt.kid \notin jwks

Keyfunc(r) ==
    /\ pc[r] = "parse"
    /\ \E keys \in (IF KeyMiss(tokenString[r]) THEN {jwks, published} ELSE {jwks}) :
          /\ jwks' = keys
          /\ keysParse' = Set(keysParse, r, keys)
    /\ pc' = Set(pc, r, "verify")
    /\ UNCHANGED <<config, published, clock, phase, load>>
    /\ UNCHANGED <<start, req, authHeader, tokenString, token, resp, logged, nextCalls,
                   evaluated, nowParse, nowExp>>

\* lines 77-81: the debug dump of a token that parsed
DebugDump(ts, claims) ==
    <<Printf("=== JWT Access Token Debug ===", NoArg),
      Printf("Raw Token: %s", ts),
      Printf("Claims: %s", [claims |-> claims]),
      Printf("===============================", NoArg)>>

\* variant of ParseToken: the error of jwt.Parse is logged and the handler
\* goes on to the claim checks
ParseToken_NoReturn(r) ==
    /\ pc[r] = "verify"
    /\ token' = Set(token, r, jwtParse(tokenString[r], keysParse[r], clock))
    /\ nowParse' = Set(nowParse, r, clock)
    /\ IF token'[r].err # ""
       THEN Log(r, Printf("Failed to parse token: %v", [err |-> token'[r].err]))
       ELSE LogAll(r, DebugDump(tokenString[r], token'[r].Claims))
    /\ pc' = Set(pc, r, "aud")
    /\ UNCHANGED env
    /\ UNCHANGED <<start, req, authHeader, tokenString, resp, nextCalls, evaluated,
                   keysParse, nowExp>>

\* lines 55-81, jwt.Parse after the key lookup: the signature is verified
\* with the key found, the validator reads the time, and the handler
\* rejects on an error or dumps the token
ParseToken(r) ==
    /\ pc[r] = "verify"
    /\ token' = Set(token, r, jwtParse(tokenString[r], keysParse[r], clock))
    /\ nowParse' = Set(nowParse, r, clock)
    /\ IF token'[r].err # ""
       THEN /\ Log(r, Printf("Failed to parse token: %v", [err |-> token'[r].err]))
            /\ Reject(r)
       ELSE IF ~token'[r].Valid
       THEN Log(r, Printf("Invalid token", NoArg)) /\ Reject(r)
       ELSE /\ LogAll(r, DebugDump(tokenString[r], token'[r].Claims))
            /\ pc' = Set(pc, r, "aud")
            /\ UNCHANGED resp
    /\ UNCHANGED env
    /\ UNCHANGED <<start, req, authHeader, tokenString, nextCalls, evaluated, keysParse,
                   nowExp>>

\* variant of CheckAudience: the failure is logged and the handler goes on
CheckAudience_NoReturn(r) ==
    /\ pc[r] = "aud"
    /\ evaluated' = Set(evaluated, r, Append(evaluated[r], "aud"))
    /\ IF ~validateAudience(config, token[r].Claims)
       THEN Log(r, Printf("Invalid audience", NoArg))
       ELSE UNCHANGED logged
    /\ pc' = Set(pc, r, "iss")
    /\ UNCHANGED env
    /\ UNCHANGED <<start, req, authHeader, tokenString, token, resp, nextCalls, nowParse,
                   keysParse, nowExp>>

\* lines 84-88
CheckAudience(r) ==
    /\ pc[r] = "aud"
    /\ evaluated' = Set(evaluated, r, Append(evaluated[r], "aud"))
    /\ IF ~validateAudience(config, token[r].Claims)
       THEN Log(r, Printf("Invalid audience", NoArg)) /\ Reject(r)
       ELSE pc' = Set(pc, r, "iss") /\ UNCHANGED <<resp, logged>>
    /\ UNCHANGED env
    /\ UNCHANGED <<start, req, authHeader, tokenString, token, nextCalls, nowParse, keysParse,
                   nowExp>>

\* variant of CheckIssuer: an iss claim that is absent or not a string is
\* answered as an internal error
CheckIssuer_TypeErrorIs500(r) ==
    /\ pc[r] = "iss"
    /\ evaluated' = Set(evaluated, r, Append(evaluated[r], "iss"))
    /\ IF "iss" \notin DOMAIN token[r].Claims \/ token[r].Claims["iss"].kind # "string"
       THEN /\ Log(r, Printf("Invalid issuer", NoArg))
            /\ resp' = Set(resp, r, httpError(resp[r], "Internal Server Error", 500))
            /\ pc' = Set(pc, r, "returned")
       ELSE IF ~validateIssuer(config, token[r].Claims)
       THEN Log(r, Printf("Invalid issuer", NoArg)) /\ Reject(r)
       ELSE pc' = Set(pc, r, "exp") /\ UNCHANGED <<resp, logged>>
    /\ UNCHANGED env
    /\ UNCHANGED <<start, req, authHeader, tokenString, token, nextCalls, nowParse, keysParse,
                   nowExp>>

\* lines 91-95
CheckIssuer(r) ==
    /\ pc[r] = "iss"
    /\ evaluated' = Set(evaluated, r, Append(evaluated[r], "iss"))
    /\ IF ~validateIssuer(config, token[r].Claims)
       THEN Log(r, Printf("Invalid issuer", NoArg)) /\ Reject(r)
       ELSE pc' = Set(pc, r, "exp") /\ UNCHANGED <<resp, logged>>
    /\ UNCHANGED env
    /\ UNCHANGED <<start, req, authHeader, tokenString, token, nextCalls, nowParse, keysParse,
                   nowExp>>

\* variant of CheckExpiration: the 401 is written and the handler goes on
CheckExpiration_NoReturn(r) ==
    /\ pc[r] = "exp"
    /\ evaluated' = Set(evaluated, r, Append(evaluated[r], "exp"))
    /\ nowExp' = Set(nowExp, r, clock)
    /\ IF ~validateExpiration(token[r].Claims, clock)
       THEN /\ Log(r, Printf("Token expired", NoArg))
            /\ resp' = Set(resp, r, sendUnauthorized(config, resp[r]))
       ELSE UNCHANGED <<resp, logged>>
    /\ pc' = Set(pc, r, "scope")
    /\ UNCHANGED env
    /\ UNCHANGED <<start, req, authHeader, tokenString, token, nextCalls, nowParse, keysParse>>

\* lines 99-103
CheckExpiration(r) ==
    /\ pc[r] = "exp"
    /\ evaluated' = Set(evaluated, r, Append(evaluated[r], "exp"))
    /\ nowExp' = Set(nowExp, r, clock)
    /\ IF ~validateExpiration(token[r].Claims, clock)
       THEN Log(r, Printf("Token expired", NoArg)) /\ Reject(r)
       ELSE pc' = Set(pc, r, "scope") /\ UNCHANGED <<resp, logged>>
    /\ UNCHANGED env
    /\ UNCHANGED <<start, req, authHeader, tokenString, token, nextCalls, nowParse, keysParse>>

\* variant of CheckScope: an insufficient scope is answered 403 with the
\* reason in the body
CheckScope_Forbidden(r) ==
    /\ pc[r] = "scope"
    /\ evaluated' = Set(evaluated, r, Append(evaluated[r], "scope"))
    /\ IF ~validateScope(token[r].Claims)
       THEN /\ Log(r, Printf("Insufficient scope", NoArg))
            /\ resp' = Set(resp, r, httpError(resp[r], "insufficient_scope", 403))
            /\ pc' = Set(pc, r, "returned")
       ELSE pc' = Set(pc, r, "next") /\ UNCHANGED <<resp, logged>>
    /\ UNCHANGED env
    /\ UNCHANGED <<start, req, authHeader, tokenString, token, nextCalls, nowParse, keysParse,
                   nowExp>>

\* lines 106-110
CheckScope(r) ==
    /\ pc[r] = "scope"
    /\ evaluated' = Set(evaluated, r, Append(evaluated[r], "scope"))
    /\ IF ~validateScope(token[r].Claims)
       THEN Log(r, Printf("Insufficient scope", NoArg)) /\ Reject(r)
       ELSE pc' = Set(pc, r, "next") /\ UNCHANGED <<resp, logged>>
    /\ UNCHANGED env
    /\ UNCHANGED <<start, req, authHeader, tokenString, token, nextCalls, nowParse, keysParse,
                   nowExp>>

\* line 113: next.ServeHTTP(w, r); the downstream handler answers
ServeNext(r) ==
    /\ pc[r] = "next"
    /\ nextCalls' = Set(nextCalls, r, nextCalls[r] + 1)
    /\ resp' = Set(resp, r, Write(resp[r], "downstream"))
    /\ pc' = Set(pc, r, "returned")
    /\ UNCHANGED env
    /\ UNCHANGED <<start, req, authHeader, tokenString, token, evaluated, logged, nowParse,
                   keysParse, nowExp>>

\* the handler has returned and the response is sent; the next request of
\* the slot gets a new ResponseWriter and new locals
Complete(r) ==
    /\ pc[r] = "done"
    /\ pc' = Set(pc, r, "idle")
    /\ req' = Set(req, r, NoRequest)
    /\ authHeader' = Set(authHeader, r, NoHeader)
    /\ tokenString' = Set(tokenString, r, NoHeader)
    /\ token' = Set(token, r, NoToken)
    /\ resp' = Set(resp, r, NewResponse)
    /\ nextCalls' = Set(nextCalls, r, 0)
    /\ evaluated' = Set(evaluated, r, <<>>)
    /\ logged' = Set(logged, r, <<>>)
    /\ nowParse' = Set(nowParse, r, 0)
    /\ keysParse' = Set(keysParse, r, {})
    /\ nowExp' = Set(nowExp, r, 0)
    /\ start' = Set(start, r, 0)
    /\ UNCHANGED env

\* one step of the handler of slot r
Handle(r) ==
    \/ ServeRedirect(r)
    \/ ServeMetadata(r)
    \/ LoggingMiddleware(r)
    \/ ReadBody(r)
    \/ CheckAuthorizationHeader(r)
    \/ Keyfunc(r)
    \/ ParseToken(r)
    \/ CheckAudience(r)
    \/ CheckIssuer(r)
    \/ CheckExpiration(r)
    \/ CheckScope(r)
    \/ ServeNext(r)
    \/ LoggingCompleted(r)
    \/ Complete(r)

Next ==
    \/ InitJWKS
    \/ InitJWKSFails
    \/ ListenAndServe
    \/ Tick
    \/ RotateKeys
    \/ RefreshJWKS
    \/ \E r \in Slots : ReceiveRequest(r)
    \/ \E r \in Slots : Handle(r)

Spec == Init /\ [][Next]_vars

\* the server under concurrent load
SpecConcurrent == InitConcurrent /\ [][Next]_vars

----------------------------------------------------------------------------
(* Properties of the gate.  The predicates below state what the claims     *)
(* expect of the request of a slot in their own terms, not through the     *)
(* operators of the gate.                                                  *)

Done(r) == pc[r] = "done"
\* the gate has returned
Returned(r) == pc[r] \in {"returned", "done"}
Contains(s, sub) ==
    \E i \in 1..(Len(s) - Len(sub) + 1) : SubSeq(s, i, i + Len(sub) - 1) = sub
\* the path has no empty, "." or ".." element
Canonical(path) ==
    /\ Len(path) > 0 /\ SubSeq(path, 1, 1) = "/"
    /\ ~Contains(path, "//")
    /\ ~Contains(path \o "/", "/./")
    /\ ~Contains(path \o "/", "/../")
\* the path of the request is matched against the patterns as it was sent:
\* it is clean, or the method is CONNECT
MatchedAsSent(q) ==
    q.path # "*" /\ (q.method = "CONNECT" \/ Canonical(q.path))
\* the request was routed to the gate: its path is matched as sent and is
\* not that of the metadata endpoint
Gated(r) ==
    /\ pc[r] # "idle"
    /\ MatchedAsSent(req[r])
    /\ req[r].path # "/.well-known/oauth-protected-resource"
\* the reasons of rejection among the entries logged for the request
ReasonFormats ==
    {"Failed to parse token: %v", "Invalid token", "Invalid claims type",
     "Invalid audience", "Invalid issuer", "Token expired", "Insufficient scope"}
IsReason(e) == e.format \in ReasonFormats
Reasons(r) ==
    LET sel == SelectSeq(logged[r], IsReason)
    IN  [i \in 1..Len(sel) |-> sel[i].format]
Forwarded(r) == nextCalls[r] > 0
Answered401(r) == resp[r].status = 401 /\ nextCalls[r] = 0
Challenge(c) ==
    "Bearer resource_metadata=\"" \o c.ResourceURL
        \o "/.well-known/oauth-protected-resource\""
ChallengeSent(r) == "WWW-Authenticate" \in DOMAIN resp[r].sent

\* the request carries a JWT right after the prefix "Bearer "
Presented(r) == Gated(r) /\ authHeader[r].text = "Bearer " /\ authHeader[r].jwt # NoJWT
TheJWT(r) == authHeader[r].jwt
TheClaims(r) == authHeader[r].jwt.claims
Has(r, name, kind) == name \in DOMAIN TheClaims(r) /\ TheClaims(r)[name].kind = kind
Elements(a) == {a[i] : i \in 1..Len(a)}

AudienceMatches(r) ==
    \/ Has(r, "aud", "string") /\ TheClaims(r)["aud"] = Str(config.ResourceURL)
    \/ Has(r, "aud", "array") /\ Str(config.ResourceURL) \in Elements(TheClaims(r)["aud"].arr)
IssuerMatches(r) ==
    Has(r, "iss", "string") /\ TheClaims(r)["iss"] = Str(config.AuthzServerURL)
ScopeGranted(r) ==
    /\ Has(r, "scope", "string")
    /\ Contains(" " \o TheClaims(r)["scope"].str \o " ", " mcp:tools ")
\* the expiry check passes at every instant up to now
NotExpiredWithSkew(r) == Has(r, "exp", "number") /\ clock < TheClaims(r)["exp"].num + 60
\* RS256, signed by the key it names, and that key was in the key set
SignatureVerified(r) ==
    /\ TheJWT(r).alg = "RS256"
    /\ TheJWT(r).sig = TheJWT(r).kid
    /\ TheJWT(r).kid \in keysParse[r]

\* C1: the downstream handler is invoked only for a request whose token
\* passed validation (RS256 signature verified with a key of the key set)
\* and whose four claim checks all returned true, and no claim check is
\* evaluated on a token whose validation failed.
C1_ForwardOnlyValidated ==
    \A r \in Slots :
        /\ Forwarded(r) =>
              /\ Presented(r) /\ SignatureVerified(r) /\ token[r].Valid
              /\ token[r].Claims = TheClaims(r)
              /\ evaluated[r] = <<"aud", "iss", "exp", "scope">>
              /\ AudienceMatches(r) /\ IssuerMatches(r) /\ ScopeGranted(r)
              /\ Has(r, "exp", "number") /\ nowExp[r] < TheClaims(r)["exp"].num + 60
        /\ evaluated[r] # <<>> => Presented(r) /\ SignatureVerified(r) /\ token[r].Valid

C1_Witness ==
    \E r \in Slots :
        /\ Done(r) /\ Forwarded(r) /\ SignatureVerified(r)
        /\ evaluated[r] = <<"aud", "iss", "exp", "scope">>

\* C2: a request whose Authorization header is absent or does not start
\* with "Bearer " is answered 401 with the WWW-Authenticate challenge, is
\* never parsed and never reaches the downstream handler.
HeaderLacksBearer(r) ==
    \/ authHeader[r].text = "" /\ authHeader[r].jwt = NoJWT
    \/ Len(authHeader[r].text) < 7
    \/ SubSeq(authHeader[r].text, 1, 7) # "Bearer "

C2_NoBearerIs401 ==
    \A r \in Slots :
        (Gated(r) /\ HeaderLacksBearer(r)) =>
            /\ pc[r] \in {"logging", "body", "header", "returned", "done"}
            /\ nextCalls[r] = 0
            /\ evaluated[r] = <<>>
            /\ Done(r) => Answered401(r) /\ ChallengeSent(r)

C2_Witness ==
    \E r \in Slots :
        /\ Gated(r) /\ Done(r) /\ Answered401(r) /\ ChallengeSent(r)
        /\ authHeader[r].text = "bearer " /\ authHeader[r].jwt = SomeJWT

\* C3: every rejection is a 401 whose transmitted WWW-Authenticate header is
\* exactly Bearer resource_metadata="<ResourceURL>/.well-known/oauth-protected-resource",
\* the header being in place when the status is written.
C3_RejectionChallenge ==
    \A r \in Slots :
        (Gated(r) /\ Done(r) /\ ~Forwarded(r)) =>
            /\ resp[r].status = 401
            /\ ChallengeSent(r)
            /\ resp[r].sent["WWW-Authenticate"] = Challenge(config)

C3_Witness ==
    \E r \in Slots :
        /\ Gated(r) /\ Done(r) /\ ~Forwarded(r) /\ Reasons(r) = <<"Insufficient scope">>
        /\ resp[r].sent["WWW-Authenticate"] =
              "Bearer resource_metadata=\"http://res.example//.well-known/oauth-protected-resource\""

\* C4: a token whose declared algorithm is not RS256 is rejected with 401
\* and never forwarded, whatever its claims are.
C4_OnlyRS256 ==
    \A r \in Slots :
        (Presented(r) /\ TheJWT(r).alg # "RS256") =>
            /\ ~Forwarded(r)
            /\ evaluated[r] = <<>>
            /\ Done(r) => Answered401(r)

C4_Witness ==
    \E r \in Slots :
        /\ Done(r) /\ Presented(r) /\ TheJWT(r).alg = "HS256" /\ Answered401(r)
        /\ AudienceMatches(r) /\ IssuerMatches(r) /\ ScopeGranted(r) /\ NotExpiredWithSkew(r)
        /\ TheJWT(r).kid \in keysParse[r]

\* C5: a token not signed by a key of the key set current at its validation
\* fails validation and is answered 401 without forwarding, whatever its
\* claims are.
C5_UnknownSignerRejected ==
    \A r \in Slots :
        (Presented(r) /\ nowParse[r] # 0 /\ TheJWT(r).sig \notin keysParse[r]) =>
            /\ ~token[r].Valid
            /\ Returned(r) /\ Answered401(r)
            /\ evaluated[r] = <<>>

C5_Witness ==
    \E r \in Slots :
        /\ Done(r) /\ Presented(r) /\ TheJWT(r).alg = "RS256" /\ Answered401(r)
        /\ TheJWT(r).sig = "evil" /\ TheJWT(r).kid \in keysParse[r]
        /\ AudienceMatches(r) /\ IssuerMatches(r) /\ ScopeGranted(r) /\ NotExpiredWithSkew(r)

\* the token of the request with its exp claim replaced by one far ahead
FarExp == Epoch + MaxElapsed + Skew
WithExp(h, n) == [h EXCEPT !.jwt.claims = ("exp" :> Num(n)) @@ @]

\* the token passes validation at the time and with the keys jwt.Parse used,
\* its exp claim left aside
ValidatedButForExp(r) ==
    /\ Presented(r) /\ nowParse[r] # 0
    /\ jwtParse(TrimPrefixHeader(WithExp(authHeader[r], FarExp)),
                keysParse[r], nowParse[r]).Valid

\* C6: for an otherwise-valid token the gate forwards if and only if aud is
\* the resource URL as a string or a collection holding it as a string
\* element; any other aud is answered 401.
C6_AudienceIff ==
    \A r \in Slots :
        Done(r) =>
            /\ Forwarded(r) => AudienceMatches(r)
            /\ (/\ token[r].Valid /\ IssuerMatches(r)
                /\ NotExpiredWithSkew(r) /\ ScopeGranted(r)) =>
                  /\ AudienceMatches(r) => Forwarded(r) /\ resp[r].status # 401
                  /\ ~AudienceMatches(r) =>
                        Answered401(r) /\ Reasons(r) = <<"Invalid audience">>

C6_Witness ==
    \E r \in Slots :
        /\ Done(r) /\ token[r].Valid /\ IssuerMatches(r)
        /\ NotExpiredWithSkew(r) /\ ScopeGranted(r)
        /\ Answered401(r) /\ Reasons(r) = <<"Invalid audience">>
        /\ Has(r, "aud", "array")
        /\ TheClaims(r)["aud"] = Arr(<<Str("http://other.example"), Str("http://res.example")>>)

C6_WitnessForwarded ==
    \E r \in Slots :
        /\ Done(r) /\ Forwarded(r)
        /\ Has(r, "aud", "array")
        /\ TheClaims(r)["aud"] = Arr(<<Num(1), Str("http://res.example/")>>)

\* C7: a token is forwarded only if iss is a string equal to the configured
\* authorization server URL; otherwise the answer is 401 even when the
\* signature, aud, exp and scope are valid.
C7_IssuerExact ==
    \A r \in Slots :
        Done(r) =>
            /\ Forwarded(r) => IssuerMatches(r)
            /\ (Presented(r) /\ token[r].Valid /\ ~IssuerMatches(r)) => Answered401(r)

C7_Witness ==
    \E r \in Slots :
        /\ Done(r) /\ token[r].Valid /\ AudienceMatches(r)
        /\ NotExpiredWithSkew(r) /\ ScopeGranted(r)
        /\ Has(r, "iss", "string") /\ ~IssuerMatches(r)
        /\ Answered401(r) /\ Reasons(r) = <<"Invalid issuer">>

\* C8: an otherwise-valid token whose exp is more than 60 seconds before the
\* time of its evaluation is answered 401 whatever its other claims are, and
\* one whose exp is one second after the time of its evaluation is forwarded.
C8_ExpiryBounds ==
    \A r \in Slots :
        (Done(r) /\ Presented(r) /\ nowParse[r] # 0 /\ Has(r, "exp", "number")) =>
            /\ TheClaims(r)["exp"].num + 60 < nowParse[r] => Answered401(r)
            /\ (/\ TheClaims(r)["exp"].num = nowParse[r] + 1
                /\ ValidatedButForExp(r)
                /\ AudienceMatches(r) /\ IssuerMatches(r) /\ ScopeGranted(r)) => Forwarded(r)

C8_WitnessForwarded ==
    \E r \in Slots :
        /\ Done(r) /\ Forwarded(r) /\ Has(r, "exp", "number")
        /\ TheClaims(r)["exp"].num = nowParse[r] + 1
        /\ nowExp[r] = nowParse[r] + 1

C8_WitnessExpired ==
    \E r \in Slots :
        /\ Done(r) /\ Answered401(r) /\ ValidatedButForExp(r)
        /\ AudienceMatches(r) /\ IssuerMatches(r) /\ ScopeGranted(r)
        /\ Has(r, "exp", "number") /\ TheClaims(r)["exp"].num + 60 < nowParse[r]
        /\ Reasons(r) = <<"Token expired">>

\* C9: a correctly signed token whose aud, iss and scope pass is forwarded at
\* every evaluation time with current_time < exp + 60, the window
\* exp <= current_time < exp + 60 included.
C9_ForwardedWithinSkew ==
    \A r \in Slots :
        (/\ Done(r) /\ ValidatedButForExp(r)
         /\ AudienceMatches(r) /\ IssuerMatches(r) /\ ScopeGranted(r)
         /\ Has(r, "exp", "number") /\ clock < TheClaims(r)["exp"].num + 60) => Forwarded(r)

\* C10: the gate forwards only if scope is a string one of whose
\* space-delimited tokens is exactly mcp:tools; a missing or non-string
\* scope, or one without that token, is answered 401.
C10_ScopeExact ==
    \A r \in Slots :
        Done(r) =>
            /\ Forwarded(r) => ScopeGranted(r)
            /\ (Presented(r) /\ token[r].Valid /\ ~ScopeGranted(r)) => Answered401(r)

C10_Witness ==
    \E r \in Slots :
        /\ Done(r) /\ token[r].Valid /\ AudienceMatches(r) /\ IssuerMatches(r)
        /\ NotExpiredWithSkew(r)
        /\ Has(r, "scope", "string")
        /\ TheClaims(r)["scope"] = Str("mcp:tools:admin xmcp:tools")
        /\ Answered401(r) /\ Reasons(r) = <<"Insufficient scope">>

\* a claim the gate checks is missing or of the wrong type
Malformed(r) ==
    \/ ~(Has(r, "aud", "string") \/ Has(r, "aud", "array"))
    \/ ~Has(r, "iss", "string")
    \/ ~Has(r, "exp", "number")
    \/ ~Has(r, "scope", "string")

\* C11: no request handled by the gate ends in a 5xx; a request whose token
\* has a missing or wrongly typed aud, iss, exp or scope ends in the 401
\* with the standard challenge and is not forwarded.
C11_NoServerError ==
    \A r \in Slots :
        /\ resp[r].status < 500
        /\ (Gated(r) /\ Done(r)) => resp[r].status \in {200, 401}
        /\ (Done(r) /\ Presented(r) /\ Malformed(r)) =>
              /\ Answered401(r)
              /\ ChallengeSent(r)
              /\ resp[r].sent["WWW-Authenticate"] = Challenge(config)

C11_Witness ==
    \E r \in Slots :
        /\ Done(r) /\ Presented(r) /\ token[r].Valid
        /\ AudienceMatches(r) /\ ScopeGranted(r) /\ NotExpiredWithSkew(r)
        /\ "iss" \in DOMAIN TheClaims(r) /\ TheClaims(r)["iss"] = Num(1)
        /\ Answered401(r) /\ Reasons(r) = <<"Invalid issuer">>

C11_WitnessNonNumericExp ==
    \E r \in Slots :
        /\ Done(r) /\ Presented(r) /\ SignatureVerified(r)
        /\ "exp" \in DOMAIN TheClaims(r) /\ TheClaims(r)["exp"] = Str("never")
        /\ Answered401(r) /\ Reasons(r) = <<"Failed to parse token: %v">>

\* what a client sees of a response: status, transmitted headers, body
Visible(w) == [status |-> w.status, sent |-> w.sent, body |-> w.body, json |-> w.json]

\* the one rejection a server of configuration c gives
Rejection(c) ==
    [status |-> 401,
     sent |-> [h \in {"WWW-Authenticate", "Content-Type", "X-Content-Type-Options"} |->
                 CASE h = "WWW-Authenticate" -> Challenge(c)
                   [] h = "Content-Type" -> "text/plain; charset=utf-8"
                   [] h = "X-Content-Type-Options" -> "nosniff"],
     body |-> "Unauthorized\n",
     json |-> [resource |-> "", authorization_servers |-> <<>>, scopes_supported |-> <<>>]]

Rejected(r) == Gated(r) /\ Done(r) /\ ~Forwarded(r)

\* C12: every rejected request of a server gets the same status, the same
\* headers and the same body, whichever step rejected it; any two requests
\* rejected at the same time have equal responses.
C12_UniformRejection ==
    /\ \A r \in Slots : Rejected(r) => Visible(resp[r]) = Rejection(config)
    /\ \A r, o \in Slots : (Rejected(r) /\ Rejected(o)) => Visible(resp[r]) = Visible(resp[o])

\* a rejection by the scope check, the last step that can reject
C12_Witness ==
    \E r \in Slots :
        /\ Rejected(r) /\ Reasons(r) = <<"Insufficient scope">>
        /\ evaluated[r] = <<"aud", "iss", "exp", "scope">>
        /\ Visible(resp[r]) = Rejection(config)

\* C13: the server begins to listen only when the initial fetch of the key
\* set has succeeded, so that the resolver holds a key set at that moment;
\* after a fatal exit no request is served.
C13_ServeOnlyWithKeys ==
    [][/\ (phase = "configured" /\ phase' = "serving") => jwks # {}
       /\ phase = "fatal" => (phase' = "fatal" /\ pc' = pc)]_vars

\* the request of the slot is addressed to the metadata endpoint
ToMetadata(r) == pc[r] # "idle" /\ req[r].path = "/.well-known/oauth-protected-resource"
\* the request has a path that is not clean and a method other than CONNECT
Unclean(q) == q.path # "*" /\ q.method # "CONNECT" /\ ~Canonical(q.path)

\* the steps of the gate
GateSteps == {"header", "parse", "verify", "aud", "iss", "exp", "scope"}

\* a request to the metadata path is in the metadata handler or answered by it
C14_Bypass ==
    \A r \in Slots :
        ToMetadata(r) =>
            /\ pc[r] \in {"metadata", "done"}
            /\ resp[r].status # 401
            /\ nowParse[r] = 0 /\ evaluated[r] = <<>> /\ logged[r] = <<>>
            /\ nextCalls[r] = 0
            /\ Done(r) => resp[r].status = 200

\* a request to another path is in the gate, or past all of its steps
C14_ThroughGate ==
    \A r \in Slots :
        Gated(r) =>
            /\ pc[r] # "metadata"
            /\ resp[r].json.resource = ""
            /\ (pc[r] = "next" \/ Forwarded(r)) =>
                  /\ tokenString[r] # authHeader[r] /\ nowParse[r] # 0
                  /\ evaluated[r] = <<"aud", "iss", "exp", "scope">>

\* a request whose path is not clean is answered by the redirect of the
\* ServeMux, one whose target is "*" by net/http, and neither reaches a
\* handler; a CONNECT request is not redirected
C14_Redirected ==
    \A r \in Slots :
        /\ (pc[r] # "idle" /\ Unclean(req[r])) =>
              /\ pc[r] \in {"redirect", "done"}
              /\ nextCalls[r] = 0 /\ nowParse[r] = 0 /\ logged[r] = <<>>
              /\ resp[r].json.resource = ""
              /\ Done(r) => resp[r].status = 301
        /\ (pc[r] # "idle" /\ req[r].path = "*") =>
              /\ pc[r] \in {"badrequest", "options", "done"}
              /\ nextCalls[r] = 0 /\ nowParse[r] = 0 /\ logged[r] = <<>>
              /\ resp[r].json.resource = ""
              /\ Done(r) => resp[r].status = (IF req[r].method = "OPTIONS" THEN 200 ELSE 400)
        /\ (pc[r] # "idle" /\ req[r].method = "CONNECT") => resp[r].status # 301

\* C14: a request to the metadata path is served by the metadata handler
\* and never enters the gate, so it is never answered 401, with or without
\* a token; a request to any other path enters the gate, and reaches the
\* downstream handler only through all of the gate's steps.
C14_Routing ==
    /\ [](C14_Bypass /\ C14_ThroughGate /\ C14_Redirected)
    /\ [][\A r \in Slots :
            (pc[r] = "idle" /\ pc'[r] # "idle") =>
                pc'[r] = (IF req'[r].path = "*"
                          THEN (IF req'[r].method = "OPTIONS" THEN "options"
                                ELSE "badrequest")
                          ELSE IF Unclean(req'[r]) THEN "redirect"
                          ELSE IF req'[r].path = "/.well-known/oauth-protected-resource"
                          THEN "metadata" ELSE "logging")]_vars

C14_Witness ==
    \E r \in Slots :
        /\ ToMetadata(r) /\ Done(r) /\ resp[r].status = 200
        /\ authHeader[r] = [text |-> "Basic ", jwt |-> NoJWT]

C14_WitnessGated ==
    \E r \in Slots :
        /\ Gated(r) /\ Done(r) /\ Answered401(r)
        /\ req[r].path = "/.well-known/oauth-protected-resource/"

CORSHeaders ==
    [h \in {"Access-Control-Allow-Origin", "Access-Control-Allow-Methods",
            "Access-Control-Allow-Headers"} |->
        CASE h = "Access-Control-Allow-Origin" -> "*"
          [] h = "Access-Control-Allow-Methods" -> "GET, OPTIONS"
          [] h = "Access-Control-Allow-Headers" -> "Content-Type"]

\* the transmitted headers include every header of hs
SentAll(r, hs) ==
    \A h \in DOMAIN hs : h \in DOMAIN resp[r].sent /\ resp[r].sent[h] = hs[h]

\* C15: GET on the metadata path is answered 200 with the document of the
\* configured resource URL, the one-element list of the configured
\* authorization server URL and the scope mcp:tools, sent with
\* Access-Control-Allow-Origin: *; OPTIONS is answered 200 with the same
\* CORS headers and no body.
C15_MetadataDocument ==
    \A r \in Slots :
        (ToMetadata(r) /\ Done(r)) =>
            /\ req[r].method = "GET" =>
                  /\ resp[r].status = 200
                  /\ resp[r].json = [resource |-> config.ResourceURL,
                                     authorization_servers |-> <<config.AuthzServerURL>>,
                                     scopes_supported |-> <<"mcp:tools">>]
                  /\ SentAll(r, CORSHeaders)
                  /\ SentAll(r, "Content-Type" :> "application/json")
            /\ req[r].method = "OPTIONS" =>
                  /\ resp[r].status = 200
                  /\ SentAll(r, CORSHeaders)
                  /\ resp[r].body = ""
                  /\ resp[r].json.resource = "" /\ resp[r].json.authorization_servers = <<>>
                  /\ resp[r].json.scopes_supported = <<>>

C14_WitnessRedirect ==
    \E r \in Slots :
        /\ Done(r) /\ req[r].path = "/mcp/../.well-known/oauth-protected-resource"
        /\ resp[r].status = 301
        /\ resp[r].sent["Location"] = "/.well-known/oauth-protected-resource"

\* a CONNECT request to the same path is handled by the gate
C14_WitnessConnect ==
    \E r \in Slots :
        /\ Gated(r) /\ Done(r) /\ req[r].method = "CONNECT"
        /\ req[r].path = "/mcp/../.well-known/oauth-protected-resource"
        /\ nextCalls[r] = 1

C15_Witness ==
    \E r \in Slots :
        /\ ToMetadata(r) /\ Done(r) /\ req[r].method = "GET"
        /\ resp[r].json.resource = "http://res.example/"
        /\ resp[r].json.authorization_servers = <<"http://AUTH.example">>

C15_WitnessOptions ==
    \E r \in Slots :
        /\ ToMetadata(r) /\ Done(r) /\ req[r].method = "OPTIONS"
        /\ resp[r].status = 200 /\ resp[r].body = ""

\* C16: the metadata handler answers GET and OPTIONS only; a request with
\* another method is not answered with the metadata document.
C16_GetAndOptionsOnly ==
    \A r \in Slots :
        (ToMetadata(r) /\ Done(r) /\ req[r].method \notin {"GET", "OPTIONS"}) =>
            /\ resp[r].json.resource = ""
            /\ resp[r].json.authorization_servers = <<>>
            /\ resp[r].json.scopes_supported = <<>>

\* the gate has written to the response: a status, a header or a body
GateWrote(r) == ChallengeSent(r) \/ resp[r].status = 401

\* what the response holds when the downstream handler alone has written it
\* (the model's downstream handler answers 200 with the body "downstream")
DownstreamOnly(w) ==
    /\ w.status = 200 /\ w.headers = <<>> /\ w.sent = <<>> /\ w.body = "downstream"

Rank(p) ==
    CASE p = "idle" -> 0 [] p = "redirect" -> 1 [] p = "badrequest" -> 1
      [] p = "options" -> 1 [] p = "metadata" -> 1 [] p = "logging" -> 1
      [] p = "body" -> 2 [] p = "header" -> 3 [] p = "parse" -> 4 [] p = "verify" -> 5
      [] p = "aud" -> 6 [] p = "iss" -> 7 [] p = "exp" -> 8 [] p = "scope" -> 9
      [] p = "next" -> 10 [] p = "returned" -> 11 [] p = "done" -> 12

\* at every moment at most one outcome, and at the end exactly one
C17_OneOutcome ==
    \A r \in Slots :
        Gated(r) =>
            /\ nextCalls[r] \in {0, 1}
            /\ ~(GateWrote(r) /\ (Forwarded(r) \/ pc[r] = "next"))
            /\ Returned(r) =>
                  \/ /\ nextCalls[r] = 0
                     /\ Visible(resp[r]) = Rejection(config)
                  \/ /\ nextCalls[r] = 1
                     /\ DownstreamOnly(resp[r])
            /\ ~Done(r) => ENABLED Handle(r)

\* every step of a handler moves its request on, leaves the request as it
\* was received, and after the outcome does nothing but return
C17_Progress ==
    \A r \in Slots :
        /\ (pc[r] \notin {"idle", "done"} /\ pc'[r] # pc[r]) => Rank(pc'[r]) > Rank(pc[r])
        /\ pc[r] \in GateSteps \cup {"next"} =>
              req'[r] = req[r] /\ authHeader'[r] = authHeader[r]
        /\ pc[r] \in {"returned", "done"} =>
              /\ pc'[r] \in {"returned", "done", "idle"}
              /\ pc'[r] # "idle" => (resp'[r] = resp[r] /\ nextCalls'[r] = nextCalls[r])

\* C17: every request that enters the gate ends in exactly one of two
\* outcomes: one 401 written by the gate and no call of the downstream
\* handler, or one call of the downstream handler with the request as
\* received, nothing written by the gate and no step of the gate after it.
C17_ExactlyOneOutcome == [](C17_OneOutcome) /\ [][C17_Progress]_vars

C17_Witness ==
    \E r \in Slots :
        /\ Gated(r) /\ Done(r) /\ nextCalls[r] = 1 /\ DownstreamOnly(resp[r])
        /\ nowExp[r] > nowParse[r]

C17_WitnessRejected ==
    \E r \in Slots :
        /\ Gated(r) /\ Done(r) /\ nextCalls[r] = 0 /\ Reasons(r) = <<"Token expired">>

Outcome(w, n, l) == [resp |-> w, nextCalls |-> n, reasons |-> l]

\* the outcome of a request handled alone by a server of configuration c:
\* q is the request, h its Authorization header, keys the key set its parse
\* read, t1 and t2 the times its parse and its expiry check read
Alone(c, q, h, keys, t1, t2) ==
    LET ts == TrimPrefixHeader(h)
        tok == jwtParse(ts, keys, t1)
        reject(l) == Outcome(sendUnauthorized(c, NewResponse), 0, l)
    IN  IF q.path = "*"
        THEN Outcome(IF q.method = "OPTIONS" THEN GlobalOptions(NewResponse)
                     ELSE BadRequest(NewResponse), 0, <<>>)
        ELSE IF Unclean(q)
        THEN Outcome(Redirect(NewResponse, q.method, cleanPath(q.path), 301), 0, <<>>)
        ELSE IF q.path = MetadataPath
        THEN Outcome(HandleProtectedResourceMetadata(c, NewResponse, q.method), 0, <<>>)
        ELSE IF HeaderIsEmpty(h) \/ ts = h THEN reject(<<>>)
        ELSE IF tok.err # "" THEN reject(<<"Failed to parse token: %v">>)
        ELSE IF ~tok.Valid THEN reject(<<"Invalid token">>)
        ELSE IF ~validateAudience(c, tok.Claims) THEN reject(<<"Invalid audience">>)
        ELSE IF ~validateIssuer(c, tok.Claims) THEN reject(<<"Invalid issuer">>)
        ELSE IF ~validateExpiration(tok.Claims, t2) THEN reject(<<"Token expired">>)
        ELSE IF ~validateScope(tok.Claims) THEN reject(<<"Insufficient scope">>)
        ELSE Outcome(Write(NewResponse, "downstream"), 1, <<>>)

\* the outcome of every finished request is the one it has when handled alone
C18_AsAlone ==
    \A r \in Slots :
        Done(r) =>
            Outcome(resp[r], nextCalls[r], Reasons(r))
                = Alone(config, req[r], authHeader[r], keysParse[r], nowParse[r], nowExp[r])

\* C18: no step of the gate or of the metadata handler writes the shared
\* OAuthConfig, and under every interleaving of the requests handled at the
\* same time each request has the outcome it has when handled alone.
C18_NoSharedWrites == [](C18_AsAlone) /\ [][config' = config]_vars

\* two requests handled at the same time, one forwarded after the resolver
\* fetched its key and a second passed during its handling, the other
\* rejected for its scope
C18_Witness ==
    \E r, o \in Slots :
        /\ r # o /\ Done(r) /\ Done(o)
        /\ Forwarded(r) /\ TheJWT(r).kid = "k2"
        /\ Answered401(o) /\ Reasons(o) = <<"Insufficient scope">>
        /\ keysParse[r] # keysParse[o]
        /\ start[r] < nowExp[r]

CheckOrder == <<"aud", "iss", "exp", "scope">>
Reason(check) ==
    CASE check = "aud" -> "Invalid audience" [] check = "iss" -> "Invalid issuer"
      [] check = "exp" -> "Token expired" [] check = "scope" -> "Insufficient scope"

\* what the claim expects of check number i on the token of the request
PassesAt(r, i, now) ==
    CASE i = 1 -> AudienceMatches(r)
      [] i = 2 -> IssuerMatches(r)
      [] i = 3 -> Has(r, "exp", "number") /\ now < TheClaims(r)["exp"].num + 60
      [] i = 4 -> ScopeGranted(r)
Passes(r, i) == PassesAt(r, i, nowExp[r])

\* the checks evaluated are the first ones of the order, all but the last
\* of them passed, and a request rejected by a check was rejected by the
\* last one evaluated, whose reason is the one logged
C19_Order ==
    \A r \in Slots :
        LET n == Len(evaluated[r]) IN
        /\ n <= 4 /\ evaluated[r] = SubSeq(CheckOrder, 1, n)
        /\ \A i \in 1..(n - 1) : Passes(r, i)
        /\ (n > 0 /\ (Forwarded(r) \/ (~Returned(r) /\ Rank(pc[r]) > n + 5))) => Passes(r, n)
        /\ (Returned(r) /\ n > 0 /\ ~Forwarded(r)) =>
              /\ ~Passes(r, n)
              /\ Reasons(r) = <<Reason(CheckOrder[n])>>
              /\ Answered401(r)
        /\ (Done(r) /\ token[r].Valid /\ \E i \in 1..4 : ~Passes(r, i)) =>
              /\ n > 0
              /\ n = CHOOSE i \in 1..4 : ~Passes(r, i) /\ \A j \in 1..(i - 1) : Passes(r, j)

\* a failing check rejects at once: the step that evaluates it ends the
\* request, and no check is evaluated for a finished request
C19_ShortCircuit ==
    \A r \in Slots :
        /\ LET n == Len(evaluated[r]) + 1 IN
           (Len(evaluated'[r]) = n /\ ~PassesAt(r, n, nowExp'[r])) =>
              /\ pc'[r] = "returned"
              /\ resp'[r].status = 401
        /\ (Returned(r) /\ pc'[r] # "idle") => evaluated'[r] = evaluated[r]

\* C19: the four claim checks are evaluated in the order audience, issuer,
\* expiry, scope; the first failing check rejects the request at once, no
\* later check is evaluated, and the logged reason is that of this check.
C19_OrderedShortCircuit == [](C19_Order) /\ [][C19_ShortCircuit]_vars

\* a token failing audience, issuer and scope is rejected for its audience
C19_Witness ==
    \E r \in Slots :
        /\ Done(r) /\ token[r].Valid
        /\ ~AudienceMatches(r) /\ ~IssuerMatches(r) /\ ~ScopeGranted(r)
        /\ evaluated[r] = <<"aud">> /\ Reasons(r) = <<"Invalid audience">>

C19_WitnessIssuer ==
    \E r \in Slots :
        /\ Done(r) /\ token[r].Valid
        /\ AudienceMatches(r) /\ ~IssuerMatches(r) /\ ~ScopeGranted(r)
        /\ evaluated[r] = <<"aud", "iss">> /\ Reasons(r) = <<"Invalid issuer">>

\* the scopes a finished GET of the metadata endpoint has advertised
Advertises(m) == ToMetadata(m) /\ Done(m) /\ req[m].method = "GET"
\* the token of the request carries scope s as a space-delimited token
Carries(r, s) ==
    /\ Has(r, "scope", "string")
    /\ Contains(" " \o TheClaims(r)["scope"].str \o " ", " " \o s \o " ")
CarriesAll(r, scopes) == \A i \in 1..Len(scopes) : Carries(r, scopes[i])

\* C20: a token that carries every scope a response of the metadata
\* endpoint advertises is never rejected for insufficient scope: the scope
\* check passes for it, and the advertised list is not empty.
C20_AdvertisedScopeSuffices ==
    \A m, r \in Slots :
        Advertises(m) =>
            /\ Len(resp[m].json.scopes_supported) > 0
            /\ (Presented(r) /\ CarriesAll(r, resp[m].json.scopes_supported)) =>
                  /\ "Insufficient scope" \notin Elements(Reasons(r))
                  /\ (Done(r) /\ evaluated[r] = <<"aud", "iss", "exp", "scope">>) =>
                        Forwarded(r)

\* a client reads the metadata and its token carrying the advertised scope
\* among others passes the scope check
C20_Witness ==
    \E m, r \in Slots :
        /\ Advertises(m)
        /\ Presented(r) /\ Done(r) /\ Forwarded(r)
        /\ CarriesAll(r, resp[m].json.scopes_supported)
        /\ TheClaims(r)["scope"] = Str("read mcp:tools write")

====
